---- MODULE Spec2Model ----
(***************************************************************************)
(* Model of src/optimize_images.py: one linear pass over os.listdir, an    *)
(* extension filter, a conditional resize and an in-place JPEG re-encode.  *)
(* Every statement of the script is one action; pc is the script position. *)
(***************************************************************************)
EXTENDS Integers, Sequences, FiniteSets, TLC

\* ------------------------------------------------------------------ bounds
MaxFiles == 2
MaxRuns == 2

\* ------------------------------------------------- configuration (l.10-12)
input_dir == "paintings"
quality == 85
max_width == 1920

\* ------------------------------------------------ IEEE-754 binary64 helpers
\* A positive double is [hi, lo, exp]: lo = <<l1, l2, l3, l4>> are four
\* 13-bit limbs, and the value is (hi + (l1 l2 l3 l4 in base 2^13) / 2^52)
\* * 2^exp, the significand hi.l1l2l3l4 having at most 53 significant bits.
Limb == 8192

\* x + c for limbs x and a carry c in {0, 1}: the limbs and the carry out
AddCarry(x, c) ==
    LET s4 == x[4] + c
        s3 == x[3] + s4 \div Limb
        s2 == x[2] + s3 \div Limb
        s1 == x[1] + s2 \div Limb
    IN [lo |-> <<s1 % Limb, s2 % Limb, s3 % Limb, s4 % Limb>>,
        carry |-> s1 \div Limb]

\* a / b for integers 1 <= a <= b < 2^17, correctly rounded to nearest,
\* ties to even (Python int / int)
TrueDiv(a, b) ==
    LET t == CHOOSE s \in 0..17 : a * 2^s >= b /\ a * 2^s < 2 * b
        r0 == a * 2^t - b
        d1 == (r0 * Limb) \div b
        r1 == (r0 * Limb) % b
        d2 == (r1 * Limb) \div b
        r2 == (r1 * Limb) % b
        d3 == (r2 * Limb) \div b
        r3 == (r2 * Limb) % b
        d4 == (r3 * Limb) \div b
        r4 == (r3 * Limb) % b
        up == 2 * r4 > b \/ (2 * r4 = b /\ d4 % 2 = 1)
        sum == AddCarry(<<d1, d2, d3, d4>>, IF up THEN 1 ELSE 0)
    IN IF sum.carry = 0
       THEN [hi |-> 1, lo |-> sum.lo, exp |-> -t]
       ELSE [hi |-> 1, lo |-> <<0, 0, 0, 0>>, exp |-> 1 - t]

\* k * x for an integer 1 <= k < 2^13 and a double x with hi = 1, correctly
\* rounded (Python int * float: k converts exactly, one rounding)
MulIntFloat(k, x) ==
    LET p4 == k * x.lo[4]
        p3 == k * x.lo[3] + p4 \div Limb
        p2 == k * x.lo[2] + p3 \div Limb
        p1 == k * x.lo[1] + p2 \div Limb
        top == k * x.hi + p1 \div Limb
        \* the exact product has d bits more than a double holds
        d == CHOOSE s \in 0..13 : 2^s <= top /\ top < 2^(s + 1)
        rem == (p4 % Limb) % 2^d
        lsb == IF d < 13 THEN ((p4 % Limb) \div 2^d) % 2 ELSE (p3 % Limb) % 2
        up == 2 * rem > 2^d \/ (2 * rem = 2^d /\ lsb = 1)
        l4 == (p4 % Limb) - rem + (IF up THEN 2^d ELSE 0)
        l3 == (p3 % Limb) + l4 \div Limb
        l2 == (p2 % Limb) + l3 \div Limb
        l1 == (p1 % Limb) + l2 \div Limb
    IN [hi |-> top + l1 \div Limb,
        lo |-> <<l1 % Limb, l2 % Limb, l3 % Limb, l4 % Limb>>,
        exp |-> x.exp]

\* int(x) for a positive double with exp <= 0: truncation toward zero
IntOfFloat(x) == x.hi \div 2^(0 - x.exp)

NoFloat == [hi |-> 0, lo |-> <<0, 0, 0, 0>>, exp |-> 0]

\* --------------------------------------------------------- names and paths
UpperChars == <<"A","B","C","D","E","F","G","H","I","J","K","L","M",
                "N","O","P","Q","R","S","T","U","V","W","X","Y","Z">>
LowerChars == <<"a","b","c","d","e","f","g","h","i","j","k","l","m",
                "n","o","p","q","r","s","t","u","v","w","x","y","z">>

\* str.lower() on one character
LowerChar(c) ==
    IF \E i \in 1..26 : UpperChars[i] = c
    THEN LowerChars[CHOOSE i \in 1..26 : UpperChars[i] = c]
    ELSE c

\* str.lower()
Lower(s) == [i \in 1..Len(s) |-> LowerChar(s[i])]

\* str.endswith(suffix)
EndsWith(s, suffix) ==
    /\ Len(s) >= Len(suffix)
    /\ SubSeq(s, Len(s) - Len(suffix) + 1, Len(s)) = suffix

JpgExt == <<".", "j", "p", "g">>

\* variant of the test of line 17 that also accepts the .jpeg spelling
IsJpgOrJpegName(name) ==
    \/ EndsWith(Lower(name), JpgExt)
    \/ EndsWith(Lower(name), <<".", "j", "p", "e", "g">>)

\* the test of line 17
IsJpgName(name) == EndsWith(Lower(name), JpgExt)

\* os.path.join(input_dir, filename)
Join(dir, name) == <<dir, name>>

NameA == <<"a", ".", "j", "p", "g">>
NameB == <<"B", ".", "J", "P", "G">>
NameC == <<"c", ".", "j", "p", "e", "g">>
NameD == <<"d", ".", "p", "n", "g">>
Names == {NameA, NameB, NameC, NameD}
ChildName == <<"x", ".", "j", "p", "g">>
NoName == <<>>
NoPath == <<>>

\* -------------------------------------------------------------- file system
\* An entry is a directory or a file.  A file carries the pixel size its
\* header declares, the quality it was encoded with (0 = not written by the
\* script) and what is wrong with it: "open" = not an image (Image.open
\* raises), "decode" = truncated pixel data (the lazy load raises), "save" =
\* cannot be written (permission, disk full), "none" = nothing.
OrigQuality == 0
DirEntry == [kind |-> "dir", w |-> 0, h |-> 0, q |-> OrigQuality, fault |-> "open"]
Corrupt == [kind |-> "file", w |-> 0, h |-> 0, q |-> OrigQuality, fault |-> "open"]
Picture(w, h, fault) ==
    [kind |-> "file", w |-> w, h |-> h, q |-> OrigQuality, fault |-> fault]

Sizes == {<<800, 600>>, <<1920, 1080>>, <<1921, 1>>,
          <<2148, 537>>, <<2560, 1441>>}
Contents ==
    {DirEntry, Corrupt}
    \cup {Picture(s[1], s[2], "none") : s \in Sizes}
    \cup {Picture(800, 600, "save"), Picture(800, 600, "decode"),
          Picture(2560, 1441, "decode")}

ChildPicture == Picture(2560, 1441, "none")

\* the directory tree holding the entries `present` with contents c
Tree(present, c) ==
    LET top == {Join(input_dir, n) : n \in present}
        subs == {Join(input_dir, n) \o <<ChildName>> :
                    n \in {x \in present : c[x].kind = "dir"}}
    IN [p \in top \cup subs |->
            IF Len(p) = 2 THEN c[p[2]] ELSE ChildPicture]

\* the names os.listdir(input_dir) returns, in every order it may return them
EntryNames(f) == {p[2] : p \in {x \in DOMAIN f : Len(x) = 2 /\ x[1] = input_dir}}
Orderings(S) ==
    {l \in [1..Cardinality(S) -> S] : \A i, j \in 1..Cardinality(S) :
                                          l[i] = l[j] => i = j}

NoImage == [w |-> 0, h |-> 0, path |-> NoPath]

VARIABLES
    dirExists,   \* input_dir exists
    fs,          \* path -> entry
    before,      \* fs when the current run started
    run,         \* number of the current run of the script
    pc,          \* position in the script
    listing,     \* the list os.listdir returned
    idx,         \* position of the for loop in listing
    filename, filepath, img, ratio, new_height, count,
    out,         \* standard output, one record per line
    events,      \* what the current run did so far, in order
    failed       \* an exception was raised in the current run

vars == <<dirExists, fs, before, run, pc, listing, idx, filename, filepath,
          img, ratio, new_height, count, out, events, failed>>

Event(op, path) == [op |-> op, path |-> path, pos |-> idx]
OkLine(name) == [kind |-> "ok", name |-> name, count |-> 0]
SummaryLine(n) == [kind |-> "summary", name |-> NoName, count |-> n]

Init ==
    /\ dirExists \in BOOLEAN
    /\ \E present \in SUBSET Names :
         /\ Cardinality(present) <= MaxFiles
         /\ dirExists = FALSE => present = {}
         /\ \E c \in [present -> Contents] : fs = Tree(present, c)
    /\ before = fs
    /\ run = 1
    /\ pc = "listdir"
    /\ listing = <<>>
    /\ idx = 0
    /\ filename = NoName
    /\ filepath = NoPath
    /\ img = NoImage
    /\ ratio = NoFloat
    /\ new_height = 0
    /\ count = 0
    /\ out = <<>>
    /\ events = <<>>
    /\ failed = FALSE

Raise ==
    /\ pc' = "aborted"
    /\ failed' = TRUE

\* line 16, os.listdir(input_dir)
ListDir ==
    /\ pc = "listdir"
    /\ dirExists
    /\ \E l \in Orderings(EntryNames(fs)) : listing' = l
    /\ idx' = 0
    /\ pc' = "for"
    /\ UNCHANGED <<dirExists, fs, before, run, filename, filepath, img, ratio,
                   new_height, count, out, events, failed>>

ListDirFail ==
    /\ pc = "listdir"
    /\ ~dirExists
    /\ Raise
    /\ UNCHANGED <<dirExists, fs, before, run, listing, idx, filename,
                   filepath, img, ratio, new_height, count, out, events>>

\* line 16, the for statement takes the next name
ForNext ==
    /\ pc = "for"
    /\ idx < Len(listing)
    /\ idx' = idx + 1
    /\ filename' = listing[idx + 1]
    /\ pc' = "if"
    /\ UNCHANGED <<dirExists, fs, before, run, listing, filepath, img, ratio,
                   new_height, count, out, events, failed>>

\* line 16, the for statement finds the list exhausted
ForExit ==
    /\ pc = "for"
    /\ idx >= Len(listing)
    /\ pc' = "summary"
    /\ UNCHANGED <<dirExists, fs, before, run, listing, idx, filename,
                   filepath, img, ratio, new_height, count, out, events, failed>>

\* variant of lines 17-18 that builds the path once and keeps it
FilterMatchStalePath ==
    /\ pc = "if"
    /\ IsJpgName(filename)
    /\ filepath' = IF filepath = NoPath THEN Join(input_dir, filename)
                   ELSE filepath
    /\ pc' = "open"
    /\ UNCHANGED <<dirExists, fs, before, run, listing, idx, filename, img,
                   ratio, new_height, count, out, events, failed>>

\* lines 17-18
FilterMatch ==
    /\ pc = "if"
    /\ IsJpgName(filename)
    /\ filepath' = Join(input_dir, filename)
    /\ pc' = "open"
    /\ UNCHANGED <<dirExists, fs, before, run, listing, idx, filename, img,
                   ratio, new_height, count, out, events, failed>>

FilterSkip ==
    /\ pc = "if"
    /\ ~IsJpgName(filename)
    /\ pc' = "for"
    /\ UNCHANGED <<dirExists, fs, before, run, listing, idx, filename,
                   filepath, img, ratio, new_height, count, out, events, failed>>

\* Image.open succeeds on a path that holds a file with a readable header
CanOpen(path) ==
    /\ path \in DOMAIN fs
    /\ fs[path].kind = "file"
    /\ fs[path].fault # "open"

\* variant of line 21 inside a try/except that goes on with the next file
OpenFailContinue ==
    /\ pc = "open"
    /\ ~CanOpen(filepath)
    /\ events' = Append(events, Event("open_fail", filepath))
    /\ failed' = TRUE
    /\ pc' = "for"
    /\ UNCHANGED <<dirExists, fs, before, run, listing, idx, filename,
                   filepath, img, ratio, new_height, count, out>>

\* line 21
Open ==
    /\ pc = "open"
    /\ CanOpen(filepath)
    /\ img' = [w |-> fs[filepath].w, h |-> fs[filepath].h, path |-> filepath]
    /\ events' = Append(events, Event("open", filepath))
    /\ pc' = "width"
    /\ UNCHANGED <<dirExists, fs, before, run, listing, idx, filename,
                   filepath, ratio, new_height, count, out, failed>>

OpenFail ==
    /\ pc = "open"
    /\ ~CanOpen(filepath)
    /\ events' = Append(events, Event("open_fail", filepath))
    /\ Raise
    /\ UNCHANGED <<dirExists, fs, before, run, listing, idx, filename,
                   filepath, img, ratio, new_height, count, out>>

\* variant of line 24 with >= for >
TooWideOrEqual(image) == image.w >= max_width

\* line 24
TooWide(image) == image.w > max_width

WidthOver ==
    /\ pc = "width"
    /\ TooWide(img)
    /\ pc' = "ratio"
    /\ UNCHANGED <<dirExists, fs, before, run, listing, idx, filename,
                   filepath, img, ratio, new_height, count, out, events, failed>>

WidthWithin ==
    /\ pc = "width"
    /\ ~TooWide(img)
    /\ pc' = "save"
    /\ UNCHANGED <<dirExists, fs, before, run, listing, idx, filename,
                   filepath, img, ratio, new_height, count, out, events, failed>>

\* round(x) for a positive double with exp <= 0: nearest, ties to even
RoundOfFloat(x) ==
    LET m == 0 - x.exp
        q == x.hi \div 2^m
        r == x.hi % 2^m
        rest == x.lo # <<0, 0, 0, 0>>
        up == IF m = 0
              THEN \/ x.lo[1] > Limb \div 2
                   \/ /\ x.lo[1] = Limb \div 2
                      /\ (x.lo[2] + x.lo[3] + x.lo[4] > 0 \/ q % 2 = 1)
              ELSE \/ 2 * r > 2^m
                   \/ 2 * r = 2^m /\ (rest \/ q % 2 = 1)
    IN IF up THEN q + 1 ELSE q

\* variant of line 26 with round for int
NewHeightRounded(height, r) == RoundOfFloat(MulIntFloat(height, r))

\* line 26, int(img.height * ratio)
NewHeight(height, r) == IntOfFloat(MulIntFloat(height, r))

\* lines 25-26
ComputeSize ==
    /\ pc = "ratio"
    /\ ratio' = TrueDiv(max_width, img.w)
    /\ new_height' = NewHeight(img.h, ratio')
    /\ pc' = "resize"
    /\ UNCHANGED <<dirExists, fs, before, run, listing, idx, filename,
                   filepath, img, count, out, events, failed>>

\* the pixel data of the opened file can be decoded
CanLoad(image) == fs[image.path].fault # "decode"

\* Image.resize rejects a target size with a side below 1
CanResize(image, width, height) ==
    /\ CanLoad(image)
    /\ width >= 1
    /\ height >= 1

\* line 27
Resize ==
    /\ pc = "resize"
    /\ CanResize(img, max_width, new_height)
    /\ img' = [img EXCEPT !.w = max_width, !.h = new_height]
    /\ events' = Append(events, Event("resize", img.path))
    /\ pc' = "save"
    /\ UNCHANGED <<dirExists, fs, before, run, listing, idx, filename,
                   filepath, ratio, new_height, count, out, failed>>

ResizeFail ==
    /\ pc = "resize"
    /\ ~CanResize(img, max_width, new_height)
    /\ events' = Append(events, Event("resize_fail", img.path))
    /\ Raise
    /\ UNCHANGED <<dirExists, fs, before, run, listing, idx, filename,
                   filepath, img, ratio, new_height, count, out>>

\* the file img.save(path, 'JPEG', quality=q) leaves at path
Encoded(image, q) ==
    [kind |-> "file", w |-> image.w, h |-> image.h, q |-> q, fault |-> "none"]

\* what a failed write may leave: the file as it was, or a truncated one
Truncated == [kind |-> "file", w |-> 0, h |-> 0, q |-> quality, fault |-> "open"]

CanSave(image, path) ==
    /\ CanLoad(image)
    /\ path \in DOMAIN fs => fs[path].fault # "save"

\* variant of line 30 that writes only an image the resize changed
SaveOnlyResized ==
    /\ pc = "save"
    /\ CanSave(img, filepath)
    /\ fs' = IF img.w # fs[filepath].w \/ img.h # fs[filepath].h
             THEN (filepath :> Encoded(img, quality)) @@ fs
             ELSE fs
    /\ events' = Append(events, Event("save", filepath))
    /\ pc' = "count"
    /\ UNCHANGED <<dirExists, before, run, listing, idx, filename, filepath,
                   img, ratio, new_height, count, out, failed>>

\* variant of line 30 that writes to the lower-cased name
SaveLowered ==
    /\ pc = "save"
    /\ CanSave(img, filepath)
    /\ fs' = (Join(input_dir, Lower(filename)) :> Encoded(img, quality)) @@ fs
    /\ events' = Append(events, Event("save", filepath))
    /\ pc' = "count"
    /\ UNCHANGED <<dirExists, before, run, listing, idx, filename, filepath,
                   img, ratio, new_height, count, out, failed>>

\* line 30
Save ==
    /\ pc = "save"
    /\ CanSave(img, filepath)
    /\ fs' = (filepath :> Encoded(img, quality)) @@ fs
    /\ events' = Append(events, Event("save", filepath))
    /\ pc' = "count"
    /\ UNCHANGED <<dirExists, before, run, listing, idx, filename, filepath,
                   img, ratio, new_height, count, out, failed>>

SaveFail ==
    /\ pc = "save"
    /\ ~CanSave(img, filepath)
    /\ \/ fs' = fs
       \/ /\ CanLoad(img)
          /\ fs' = (filepath :> [Truncated EXCEPT !.fault = "save"]) @@ fs
    /\ events' = Append(events, Event("save_fail", filepath))
    /\ Raise
    /\ UNCHANGED <<dirExists, before, run, listing, idx, filename, filepath,
                   img, ratio, new_height, count, out>>

\* variant of line 31 with = for +=
IncrCountAssign ==
    /\ pc = "count"
    /\ count' = 1
    /\ events' = Append(events, Event("count", filepath))
    /\ pc' = "print"
    /\ UNCHANGED <<dirExists, fs, before, run, listing, idx, filename,
                   filepath, img, ratio, new_height, out, failed>>

\* line 31
IncrCount ==
    /\ pc = "count"
    /\ count' = count + 1
    /\ events' = Append(events, Event("count", filepath))
    /\ pc' = "print"
    /\ UNCHANGED <<dirExists, fs, before, run, listing, idx, filename,
                   filepath, img, ratio, new_height, out, failed>>

\* variant of line 32 with the summary print of line 34 inside the loop
PrintOKWithSummary ==
    /\ pc = "print"
    /\ out' = out \o <<OkLine(filename), SummaryLine(count)>>
    /\ events' = Append(events, Event("print", Join(input_dir, filename)))
    /\ pc' = "for"
    /\ UNCHANGED <<dirExists, fs, before, run, listing, idx, filename,
                   filepath, img, ratio, new_height, count, failed>>

\* line 32
PrintOK ==
    /\ pc = "print"
    /\ out' = Append(out, OkLine(filename))
    /\ events' = Append(events, Event("print", Join(input_dir, filename)))
    /\ pc' = "for"
    /\ UNCHANGED <<dirExists, fs, before, run, listing, idx, filename,
                   filepath, img, ratio, new_height, count, failed>>

\* line 34
Summary ==
    /\ pc = "summary"
    /\ out' = Append(out, SummaryLine(count))
    /\ pc' = "done"
    /\ UNCHANGED <<dirExists, fs, before, run, listing, idx, filename,
                   filepath, img, ratio, new_height, count, events, failed>>

\* the script is started again on the directory a completed run left
\* (lines 1-14 of the new process)
Rerun ==
    /\ pc = "done"
    /\ run < MaxRuns
    /\ run' = run + 1
    /\ before' = fs
    /\ pc' = "listdir"
    /\ listing' = <<>>
    /\ idx' = 0
    /\ filename' = NoName
    /\ filepath' = NoPath
    /\ img' = NoImage
    /\ ratio' = NoFloat
    /\ new_height' = 0
    /\ count' = 0
    /\ out' = <<>>
    /\ events' = <<>>
    /\ failed' = FALSE
    /\ UNCHANGED <<dirExists, fs>>

Next ==
    \/ ListDir
    \/ ListDirFail
    \/ ForNext
    \/ ForExit
    \/ FilterMatch
    \/ FilterSkip
    \/ Open
    \/ OpenFail
    \/ WidthOver
    \/ WidthWithin
    \/ ComputeSize
    \/ Resize
    \/ ResizeFail
    \/ Save
    \/ SaveFail
    \/ IncrCount
    \/ PrintOK
    \/ Summary
    \/ Rerun

Spec == Init /\ [][Next]_vars

\* the interpreter always executes the next statement
FairSpec == Spec /\ WF_vars(Next)

\* ------------------------------------------------------------ observations
\* "name, lower-cased, ends in .jpg", stated letter by letter
SpecMatches(n) ==
    /\ Len(n) >= 4
    /\ n[Len(n) - 3] = "."
    /\ n[Len(n) - 2] \in {"j", "J"}
    /\ n[Len(n) - 1] \in {"p", "P"}
    /\ n[Len(n)] \in {"g", "G"}

EventsOf(op) == {i \in DOMAIN events : events[i].op = op}
Did(op, p) == \E i \in EventsOf(op) : events[i].path = p
Saved(p) == Did("save", p)
Touched(p) == \E i \in DOMAIN events : events[i].path = p
OkLines == {i \in DOMAIN out : out[i].kind = "ok"}
SummaryLines == {i \in DOMAIN out : out[i].kind = "summary"}
MatchingBefore(k) == {i \in 1..(k - 1) : i <= Len(listing) /\ SpecMatches(listing[i])}
Floor(n, d) == n \div d
\* the integer nearest to n / d, ties to even (Python round)
RoundDiv(n, d) ==
    LET q == n \div d
        r == n % d
    IN IF 2 * r > d \/ (2 * r = d /\ q % 2 = 1) THEN q + 1 ELSE q

\* --------------------------------------------------------------------- C1
\* C1 as stated: every file written back whose original width exceeded
\* max_width has width max_width and height round(h * max_width / w).
C1_RoundedHeight ==
    \A p \in DOMAIN fs \cap DOMAIN before :
        (Saved(p) /\ before[p].w > max_width) =>
            /\ fs[p].w = max_width
            /\ fs[p].h = RoundDiv(before[p].h * max_width, before[p].w)

\* C1 amended: every file written back whose original width exceeded
\* max_width has width max_width and height int(h * (max_width / w)) in
\* double arithmetic: floor(h * max_width / w), or one less than it, which
\* happens only when w divides h * max_width.
C1_TruncatedHeight ==
    \A p \in DOMAIN fs \cap DOMAIN before :
        (Saved(p) /\ before[p].w > max_width) =>
            LET n == before[p].h * max_width
                w == before[p].w
            IN /\ fs[p].w = max_width
               /\ fs[p].h \in {Floor(n, w), Floor(n, w) - 1}
               /\ n % w # 0 => fs[p].h = Floor(n, w)
               /\ fs[p].h >= 1

\* a 2148 x 537 file was written back 1920 x 479 (537 * 1920 / 2148 = 480)
C1_Witness ==
    \E p \in DOMAIN fs \cap DOMAIN before :
        /\ Saved(p)
        /\ before[p].w = 2148 /\ before[p].h = 537
        /\ fs[p].w = max_width /\ fs[p].h = 479

\* --------------------------------------------------------------------- C2
\* C2: a file whose width is at most max_width (max_width included) never
\* takes the resize step, and once processed it has been re-encoded at its
\* own path with the width and height it had.
C2_NarrowKept ==
    \A p \in DOMAIN before :
        (Did("open", p) /\ before[p].w <= max_width) =>
            /\ ~Did("resize", p) /\ ~Did("resize_fail", p)
            /\ (pc \in {"ratio", "resize"} => img.path # p)
            /\ Did("count", p) =>
                  /\ Saved(p)
                  /\ p \in DOMAIN fs
                  /\ fs[p].w = before[p].w
                  /\ fs[p].h = before[p].h
                  /\ fs[p].q = quality
                  /\ fs[p].kind = "file"

\* a file exactly max_width wide was re-encoded without a resize
C2_Witness ==
    \E p \in DOMAIN before \cap DOMAIN fs :
        /\ run = 1
        /\ before[p].w = max_width /\ before[p].q = OrigQuality
        /\ Did("count", p)
        /\ fs[p].q = quality /\ fs[p].w = max_width

\* --------------------------------------------------------------------- C3
\* C3 as stated: at every point of the run the counter equals the number of
\* files overwritten so far, and the summary of a completed run carries the
\* number of entries whose lower-cased name ends in .jpg.
C3_CountIsWritten ==
    /\ count = Cardinality(EventsOf("save"))
    /\ pc = "done" =>
          out[Len(out)] = SummaryLine(
              Cardinality({n \in EntryNames(before) : SpecMatches(n)}))

\* C3 amended: the counter is incremented once per file, only after that
\* file's save; it equals the number of files saved so far, except between
\* a file's save (line 30) and its increment (line 31), where it is one
\* less; the summary of a completed run carries the number of entries whose
\* lower-cased name ends in .jpg.
C3_CountLagsSave ==
    /\ count = Cardinality(EventsOf("count"))
    /\ \A i \in EventsOf("count") :
          /\ i > 1
          /\ events[i - 1].op = "save"
          /\ events[i - 1].path = events[i].path
    /\ \A i, j \in EventsOf("count") : events[i].path = events[j].path => i = j
    /\ count = Cardinality(EventsOf("save")) - (IF pc = "count" THEN 1 ELSE 0)
    /\ pc = "done" =>
          /\ out[Len(out)] = SummaryLine(count)
          /\ count = Cardinality({n \in EntryNames(before) : SpecMatches(n)})

\* a completed run over two matching files reported 2
C3_Witness ==
    /\ pc = "done"
    /\ count = 2
    /\ Cardinality({n \in EntryNames(before) : SpecMatches(n)}) = 2

\* --------------------------------------------------------------------- C4
\* C4: the run never opens or changes an entry whose name does not end in
\* .jpg case-insensitively, never adds or removes a name, writes only to
\* the path it opened, and never touches what a subdirectory holds.
C4_Frame ==
    /\ DOMAIN fs = DOMAIN before
    /\ \A p \in DOMAIN before :
          (Len(p) # 2 \/ ~SpecMatches(p[2])) =>
              /\ ~Touched(p)
              /\ fs[p] = before[p]
    /\ \A i \in DOMAIN events :
          /\ events[i].path \in DOMAIN before
          /\ Len(events[i].path) = 2
    /\ \A i \in EventsOf("save") \cup EventsOf("save_fail") :
          \E j \in 1..(i - 1) :
              /\ events[j].op = "open"
              /\ events[j].path = events[i].path
              /\ events[j].pos = events[i].pos

\* a run has ended on a directory holding a file it wrote, an entry it
\* had to skip and a subdirectory
C4_Witness ==
    /\ pc \in {"done", "aborted"}
    /\ \E p \in DOMAIN fs : Saved(p) /\ fs[p].q = quality
    /\ \E p \in DOMAIN fs : Len(p) = 2 /\ ~SpecMatches(p[2])
    /\ \E p \in DOMAIN fs : Len(p) = 3

\* --------------------------------------------------------------------- C5
\* C5: in a run started on the directory a completed run left, no file
\* takes the resize branch and every file written keeps its width and
\* height.
C5_SecondRunKeepsSize ==
    run >= 2 =>
        /\ pc \notin {"ratio", "resize"}
        /\ EventsOf("resize") \cup EventsOf("resize_fail") = {}
        /\ \A p \in DOMAIN fs \cap DOMAIN before :
              SpecMatches(p[2]) /\ Len(p) = 2 =>
                  /\ fs[p].w = before[p].w
                  /\ fs[p].h = before[p].h

\* the second run re-saved a file the first run had shrunk to max_width
C5_Witness ==
    /\ run = 2
    /\ pc = "done"
    /\ \E p \in DOMAIN fs \cap DOMAIN before :
          /\ Saved(p)
          /\ before[p].w = max_width /\ before[p].h = 1080
          /\ before[p].q = quality
          /\ fs[p].w = max_width /\ fs[p].h = 1080

\* --------------------------------------------------------------------- C6
\* C6: when a matching file fails to load, resize or save, the run stops at
\* that file: the matching files before it are saved, counted and logged,
\* the failing file is neither counted nor logged, no later file is opened
\* or written, and no summary line is printed.
C6_AbortAtFailure ==
    (failed /\ dirExists) =>
        /\ pc = "aborted"
        /\ idx \in 1..Len(listing)
        /\ events # <<>>
        /\ events[Len(events)].op \in {"open_fail", "resize_fail", "save_fail"}
        /\ events[Len(events)].pos = idx
        /\ \A i \in MatchingBefore(idx) :
              /\ Saved(Join(input_dir, listing[i]))
              /\ fs[Join(input_dir, listing[i])].q = quality
              /\ \E k \in OkLines : out[k].name = listing[i]
        /\ count = Cardinality(MatchingBefore(idx))
        /\ Len(out) = count
        /\ SummaryLines = {}
        /\ \A k \in DOMAIN out : out[k].name # listing[idx]
        /\ ~Did("count", Join(input_dir, listing[idx]))
        /\ \A i \in (idx + 1)..Len(listing) :
              /\ ~Touched(Join(input_dir, listing[i]))
              /\ fs[Join(input_dir, listing[i])] = before[Join(input_dir, listing[i])]

\* the first of two matching files failed and the second was left alone
C6_Witness ==
    /\ pc = "aborted"
    /\ idx = 1
    /\ Len(listing) = 2
    /\ SpecMatches(listing[1]) /\ SpecMatches(listing[2])
    /\ before[Join(input_dir, listing[2])].fault = "none"

\* --------------------------------------------------------------------- C7
\* C7: on a directory without an entry whose name ends in .jpg
\* case-insensitively, the run opens nothing, writes nothing, prints no
\* per-file line, and its summary says 0.
C7_NothingToDo ==
    (dirExists /\ \A n \in EntryNames(before) : ~SpecMatches(n)) =>
        /\ events = <<>>
        /\ fs = before
        /\ OkLines = {}
        /\ ~failed
        /\ pc \notin {"open", "width", "ratio", "resize", "save", "count", "print"}
        /\ out \in {<<>>, <<SummaryLine(0)>>}
        /\ pc = "done" => out = <<SummaryLine(0)>>

\* a run completed on a non-empty directory without a matching name
C7_Witness ==
    /\ pc = "done"
    /\ EntryNames(before) # {}
    /\ \A n \in EntryNames(before) : ~SpecMatches(n)
    /\ out = <<SummaryLine(0)>>

\* --------------------------------------------------------------------- C8
\* C8: files are handled one at a time in listing order: everything done
\* for a file is done at that file's turn of the loop, in the order open,
\* resize, save, count, print, and a file is opened only after every
\* matching file before it has been printed; the image in memory is that
\* of the file whose turn it is.
OpRank(op) ==
    CASE op \in {"open", "open_fail"} -> 1
      [] op \in {"resize", "resize_fail"} -> 2
      [] op \in {"save", "save_fail"} -> 3
      [] op = "count" -> 4
      [] op = "print" -> 5

C8_OneAtATime ==
    /\ \A i \in DOMAIN events :
          /\ events[i].pos \in 1..Len(listing)
          /\ events[i].pos <= idx
          /\ events[i].path = Join(input_dir, listing[events[i].pos])
    /\ \A i, j \in DOMAIN events :
          i < j =>
              /\ events[i].pos <= events[j].pos
              /\ events[i].pos = events[j].pos =>
                    OpRank(events[i].op) < OpRank(events[j].op)
    /\ \A j \in EventsOf("open") \cup EventsOf("open_fail") :
          \A a \in MatchingBefore(events[j].pos) :
              \E i \in 1..(j - 1) :
                  /\ events[i].op = "print"
                  /\ events[i].pos = a
    /\ pc \in {"width", "ratio", "resize", "save", "count", "print"} =>
          img.path = Join(input_dir, listing[idx])

\* the second file was opened after the first had been printed
C8_Witness ==
    \E i, j \in DOMAIN events :
        /\ i < j
        /\ events[i].op = "print" /\ events[i].pos = 1
        /\ events[j].op = "open" /\ events[j].pos = 2

\* --------------------------------------------------------------------- C9
\* C9: a run in which no file fails ends, and what it printed is one
\* confirmation line per matching file, in listing order, each after that
\* file's save, then one summary line carrying the number of confirmation
\* lines.
OutputShape ==
    LET n == Len(out) - 1
    IN /\ Len(out) >= 1
       /\ out[Len(out)] = SummaryLine(n)
       /\ \A k \in 1..n : out[k].kind = "ok"
       /\ n = Cardinality({i \in DOMAIN listing : SpecMatches(listing[i])})
       /\ \A k \in 1..n :
             \E i \in DOMAIN listing :
                 /\ SpecMatches(listing[i])
                 /\ Cardinality(MatchingBefore(i)) = k - 1
                 /\ out[k] = OkLine(listing[i])
       /\ \A i \in EventsOf("print") :
             \E j \in 1..(i - 1) :
                 events[j].op = "save" /\ events[j].path = events[i].path

C10_ValidTargetSize ==
    pc = "resize" =>
        /\ max_width < img.w
        /\ new_height >= 1
        /\ new_height <= img.h

====
